---- MODULE Spec2Model ----
(***************************************************************************)
(* Model of tvilling: the bridge between a manufacturing cell (GPIO lines) *)
(* and a cloud MQTT endpoint.                                              *)
(*                                                                         *)
(*   SpecSession : main.rs -- get_client, its disconnected callback, the   *)
(*                 subscribe, the inbound listener and the hardware loop.  *)
(*   SpecInbound : main.rs -- the session and the inbound listener with    *)
(*                 commands of any shape; FairSpecInbound adds scheduling. *)
(*   SpecLoop    : main.rs -- the same without clock and inbound commands, *)
(*                 with GPIO event streams that can end.                   *)
(*   SpecFeeder  : manufacturing_components/feeder.rs -- Feeder.           *)
(*   SpecRobot   : manufacturing_components/robot.rs -- Robot.             *)
(*   SpecCycle   : manufacturing_components/program.rs and the cycle       *)
(*                 controller of the specification, on the Feeder.         *)
(*   SpecProgram : manufacturing_components/program.rs -- start and stop   *)
(*                 of SimplifiedScenario2 in any order.                    *)
(*   SpecDecode  : gcp_iot/message.rs -- StartRequest.                     *)
(*                                                                         *)
(* gcp_iot/mod.rs holds a second, textually identical copy of get_client   *)
(* (gcp_connect); the session part models both.                            *)
(***************************************************************************)
EXTENDS Integers, Sequences, FiniteSets, TLC

\* ------------------------------------------------------------------ bounds
MaxClock == 2
MaxDisconnects == 1
MaxCommands == 1
MaxEvents == 2
MaxInitCount == 2
MaxBelowTop == 1
MaxAdd == 1
MaxFeederOps == 4
MaxPending == 2
MaxEdges == 7
MaxTyped == 2
MaxPicks == 3
MaxInbound == 2
MaxProgramCalls == 5

\* --------------------------------------------------------- program constants
CleanSession == TRUE
ServerUri == "ssl://mqtt.googleapis.com:8883"
MqttClientId == "projects/p/locations/r/registries/g/devices/d"
ConfigTopic == "/devices/d/config"

\* the lines main awaits events of
GpioLines == {"pos_1", "loc_reached"}

\* ReasonCode values the transport can hand to the disconnected callback
ReasonCode == {"KeepAliveTimeout", "ServerShuttingDown", "NormalDisconnection"}

VARIABLES
    \* ---- session (main.rs)
    now,          \* wall clock, SystemTime::now() in seconds
    proc,         \* "running" | "exited" (main returned Err) | "aborted" (panic)
    mainPc,       \* position of main / get_client
    mainNow,      \* `now` local of new_password_jwt called by get_client
    client,       \* the AsyncClient made by get_client: client id and server uri
    connState,    \* transport: "Disconnected" | "Connecting" | "Connected"
    inFlight,     \* options of the connect call the transport is working on
    obsPc,        \* disconnected callback: "idle" | "invoked" | "minting"
    obsReason,    \* reason code of the running callback invocation
    obsNow,       \* `now` local of new_password_jwt called by the callback
    obsStart,     \* clock when the running callback invocation began
    mints,        \* number of credentials minted so far
    attempts,     \* log of connect calls
    obsLog,       \* log of finished callback invocations
    subs,         \* topics the broker holds for this session
    subscribeCalls, \* subscribe calls made by the program
    stream,       \* client.get_stream buffer of inbound messages
    listener,     \* "none" | "running": the spawned inbound listener task
    handled,      \* messages the listener took off the stream
    cmdLog,       \* log of commands the cloud published on the config topic
    pubInFlight,  \* message of the publish call main awaits, <<>> if none
    pubFailed,    \* the awaited publish token resolved to an error
    produced,     \* events the hardware loop produced, in order
    published,    \* events the broker received, in order
    gpioClosed,   \* GPIO lines of main whose event stream has ended
    edgeLog,      \* per produced event: the awaited next() yielded an edge
    \* ---- feeder (feeder.rs)
    count,        \* Feeder.count: u32, as <<hi, lo>>
    initCount,    \* count given to Feeder::new
    feederPc,     \* "idle" | "awaiting" (async_next_event suspended on the line)
                  \* | "panicked"
    overflowChecks, \* the build panics on integer overflow (debug) or wraps (release)
    feederRet,    \* last result of async_next_event
    linePending,  \* edge events queued on the feeder line
    lineClosed,   \* the event stream has ended: next() yields None
    feederCalls,  \* calls of async_next_event
    feederDecs,   \* decrements of count
    edgesSeen,    \* edge events async_next_event took from the line
    yielded,      \* MaterialPickedUp results returned
    added,        \* total passed to add_new_material
    addPc,        \* second actor: "idle" | "waiting" for exclusive access
    addArg,       \* argument of the pending add_new_material
    addSnap,      \* [count, edges] when the second actor asked, <<>> if none
    addLog,       \* finished add_new_material calls
    \* ---- robot (robot.rs)
    position,     \* Robot.position
    robotPc,      \* "idle" | "awaiting"
    robotPending, \* edge events queued on the robot line
    robotClosed,  \* the robot line's stream has ended
    robotCalls,   \* calls of Robot.async_next_event
    robotRet,     \* last result of Robot.async_next_event
    robotEdges,   \* edges observed by Robot.async_next_event
    posHist,      \* position after construction and after each observed edge
    \* ---- start request (gcp_iot/message.rs)
    reqNeg,       \* the count of the JSON text has a minus sign
    reqDigits,    \* the decimal digits of the count in the JSON text
    reqTyped,     \* digits appended to the text so far
    decodePc,     \* "text" | "decoded"
    decoded,      \* result of serde_json::from_str::<StartRequest>
    \* ---- production cycle (program.rs, and the controller of the
    \*      specification)
    programLine,  \* value of the output line of SimplifiedScenario2
    programCalls, \* start / stop calls made on the program, in order
    lineLevel,    \* level of the feeder line, as get_value reads it
    cyclePc,      \* position of the controller
    cycleN,       \* picks requested
    cycleDone,    \* pickup/placement pairs completed
    cycleResult,  \* what the cycle returned to its issuer
    cycleLog,     \* what the cycle did, in order
    outQueue,     \* events put on the outbound queue
    programLog    \* start / stop calls made on the program by any caller,
                  \* each with its result and the line before and after

sessionVars == <<now, proc, mainPc, mainNow, client, connState, inFlight, obsPc,
                 obsReason, obsNow, obsStart, mints, attempts, obsLog, subs,
                 subscribeCalls, stream, listener, handled, cmdLog, pubInFlight,
                 pubFailed, produced, published>>
feederVars == <<count, initCount, feederPc, overflowChecks, feederRet,
                linePending, lineClosed,
                feederCalls, feederDecs, edgesSeen, yielded, added, addPc,
                addArg, addSnap, addLog>>
robotVars == <<position, robotPc, robotPending, robotClosed, robotCalls,
               robotRet, robotEdges, posHist>>
loopVars == <<gpioClosed, edgeLog>>
decodeVars == <<reqNeg, reqDigits, reqTyped, decodePc, decoded>>
\* the state outside session, feeder and robot
programVars == <<programLog>>
restVars == <<decodeVars, programVars>>
cycleVars == <<programLine, programCalls, lineLevel, cyclePc, cycleN, cycleDone,
               cycleResult, cycleLog, outQueue>>
vars == <<sessionVars, loopVars, feederVars, robotVars, restVars, cycleVars>>

\* ======================================================================
\* Integers of 32 bits and more
\* ======================================================================

\* Feeder.count is a u32. An integer is held as <<hi, lo>> with value
\* hi * 2^16 + lo and lo in 0..2^16-1, so that the whole u32 range and the
\* exact sums beyond it can be written; a u32 is such a pair with hi in
\* 0..2^16-1.
Half == 2^16
Big(k) == <<k \div Half, k % Half>>
BigAdd(x, y) == <<x[1] + y[1] + ((x[2] + y[2]) \div Half), (x[2] + y[2]) % Half>>
BigSub(x, y) == <<x[1] - y[1] + ((x[2] - y[2]) \div Half), (x[2] - y[2]) % Half>>
BigLt(x, y) == x[1] < y[1] \/ (x[1] = y[1] /\ x[2] < y[2])
\* the value a u32 keeps of an integer: the low 32 bits
Wrap32(x) == <<x[1] % Half, x[2]>>
\* u32::MAX
U32Max == <<Half - 1, Half - 1>>

\* ======================================================================
\* StartRequest: gcp_iot/message.rs
\* ======================================================================

\* The payload is the JSON text {"count": <number>}; the number is an
\* optional minus sign followed by decimal digits. StartRequest derives
\* Deserialize with count: u32.

BigMul10(x) == <<x[1] * 10 + ((x[2] * 10) \div Half), (x[2] * 10) % Half>>
BigDiv10(x) == <<x[1] \div 10, ((x[1] % 10) * Half + x[2]) \div 10>>
BigMod10(x) == ((x[1] % 10) * Half + x[2]) % 10

\* the integer a digit sequence denotes
RECURSIVE ParseDigits(_)
ParseDigits(ds) ==
    IF ds = <<>> THEN Big(0)
    ELSE BigAdd(BigMul10(ParseDigits(SubSeq(ds, 1, Len(ds) - 1))),
                Big(ds[Len(ds)]))

\* the decimal digits of a non-negative integer, without leading zeros
RECURSIVE RenderNonZero(_)
RenderNonZero(x) ==
    IF x = Big(0) THEN <<>>
    ELSE Append(RenderNonZero(BigDiv10(x)), BigMod10(x))
Render(x) == IF x = Big(0) THEN <<0>> ELSE RenderNonZero(x)

\* JSON number syntax: at least one digit, no leading zero
ValidNumber(ds) == ds /= <<>> /\ (Len(ds) = 1 \/ ds[1] /= 0)

\* the u32 visitor: an integer is accepted when 0 <= v <= u32::MAX
InU32(v) == v[1] >= 0 /\ v[1] < Half

\* serde_json::from_str::<StartRequest> on {"count": <number>}. The parser
\* reads a negative literal as a signed integer, and "-0" as the float -0.0,
\* which the u32 visitor does not take.
\* faulty variant: the integer is cast to u32, keeping its low 32 bits
Decode_cast(neg, ds) ==
    IF ~ValidNumber(ds) THEN [ok |-> FALSE, count |-> Big(0)]
    ELSE LET v == IF neg THEN BigSub(Big(0), ParseDigits(ds))
                  ELSE ParseDigits(ds)
         IN [ok |-> TRUE, count |-> Wrap32(v)]
Decode(neg, ds) ==
    IF ~ValidNumber(ds) THEN [ok |-> FALSE, count |-> Big(0)]
    ELSE LET v == IF neg THEN BigSub(Big(0), ParseDigits(ds))
                  ELSE ParseDigits(ds)
         IN IF neg /\ v = Big(0) THEN [ok |-> FALSE, count |-> Big(0)]
            ELSE IF InU32(v) THEN [ok |-> TRUE, count |-> v]
            ELSE [ok |-> FALSE, count |-> Big(0)]

\* ======================================================================
\* Session: main.rs (get_client, disconnected callback, subscribe, loop)
\* ======================================================================

\* new_password_jwt: the token's issue time is the clock reading `t` taken by
\* the call; `k` identifies the String this call produced.
\* faulty variant: the issue time is a clock reading cached at start-up
new_password_jwt_stale(t, k) == [iat |-> 0, serial |-> k]
new_password_jwt(t, k) == [iat |-> t, serial |-> k]

\* get_connect_ops: the connect options built around a token.
get_connect_ops(jwt) ==
    [mqtt_version |-> "3.1.1", keep_alive |-> 60 * 20, user_name |-> "ignore",
     clean_session |-> CleanSession, password |-> jwt]

\* The publish call of the hardware loop: client.publish(msg).await?
\* A client that is not connected resolves the token to an error and `?`
\* returns it from main.
PublishCall(msg, pcNext) ==
    /\ produced' = Append(produced, msg)
    /\ IF connState = "Connected"
       THEN /\ pubInFlight' = <<msg>>
            /\ mainPc' = pcNext
            /\ proc' = proc
       ELSE /\ pubInFlight' = pubInFlight
            /\ mainPc' = mainPc
            /\ proc' = "exited"

\* payloads of inbound commands: the count of {"count": <number>} as sign and
\* digits; no digits stands for a payload that is not a number
StartRequest5 == [neg |-> FALSE, digits |-> <<5>>]
Payloads == {StartRequest5, [neg |-> TRUE, digits |-> <<5>>],
             [neg |-> FALSE, digits |-> <<>>]}
WellFormed(payload) == Decode(payload.neg, payload.digits).ok

\* who issued the connect call the current connection came from
ConnectedBy == IF Len(attempts) = 0 THEN "none" ELSE attempts[Len(attempts)].by

SessionInit ==
    /\ now = 0
    /\ proc = "running"
    /\ mainPc = "start"
    /\ mainNow = -1
    /\ client = [client_id |-> "", server_uri |-> ""]
    /\ connState = "Disconnected"
    /\ inFlight = <<>>
    /\ obsPc = "idle"
    /\ obsReason = "none"
    /\ obsNow = -1
    /\ obsStart = -1
    /\ mints = 0
    /\ attempts = <<>>
    /\ obsLog = <<>>
    /\ subs = {}
    /\ subscribeCalls = 0
    /\ stream = <<>>
    /\ listener = "none"
    /\ handled = <<>>
    /\ cmdLog = <<>>
    /\ pubInFlight = <<>>
    /\ pubFailed = FALSE
    /\ produced = <<>>
    /\ published = <<>>
    /\ gpioClosed = {}
    /\ edgeLog = <<>>

\* the wall clock advances
Tick ==
    /\ proc = "running"
    /\ now < MaxClock
    /\ now' = now + 1
    /\ UNCHANGED <<proc, mainPc, mainNow, client, connState, inFlight, obsPc,
                   obsReason, obsNow, obsStart, mints, attempts, obsLog, subs,
                   subscribeCalls, stream, listener, handled, cmdLog,
                   pubInFlight, pubFailed, produced, published>>
    /\ UNCHANGED <<loopVars, feederVars, robotVars, restVars, cycleVars>>

\* get_client, up to the await of the key file inside new_password_jwt:
\* the clock is read first.
GetClientMintBegin ==
    /\ proc = "running"
    /\ mainPc = "start"
    /\ mainNow' = now
    /\ mainPc' = "minting"
    /\ UNCHANGED <<now, proc, client, connState, inFlight, obsPc, obsReason,
                   obsNow, obsStart, mints, attempts, obsLog, subs,
                   subscribeCalls, stream, listener, handled, cmdLog,
                   pubInFlight, pubFailed, produced, published>>
    /\ UNCHANGED <<loopVars, feederVars, robotVars, restVars, cycleVars>>

\* get_client from the key file read to the connect call it awaits. An
\* unreadable key or a signing failure panics (expect / unwrap).
GetClientConnect ==
    /\ proc = "running"
    /\ mainPc = "minting"
    /\ \E keyOk \in BOOLEAN :
        IF keyOk
        THEN LET jwt == new_password_jwt(mainNow, mints + 1) IN
             /\ mints' = mints + 1
             /\ client' = [client_id |-> MqttClientId, server_uri |-> ServerUri]
             /\ inFlight' = <<[ops |-> get_connect_ops(jwt), by |-> "get_client"]>>
             /\ connState' = "Connecting"
             /\ attempts' = Append(attempts,
                   [by |-> "get_client", cred |-> jwt, since |-> 0, called |-> now,
                    client_id |-> MqttClientId, server_uri |-> ServerUri])
             /\ mainPc' = "connecting"
             /\ proc' = proc
        ELSE /\ proc' = "aborted"
             /\ UNCHANGED <<mints, client, inFlight, connState, attempts, mainPc>>
    /\ UNCHANGED <<now, mainNow, obsPc, obsReason, obsNow, obsStart, obsLog,
                   subs, subscribeCalls, stream, listener, handled, cmdLog,
                   pubInFlight, pubFailed, produced, published>>
    /\ UNCHANGED <<loopVars, feederVars, robotVars, restVars, cycleVars>>

\* The transport finishes the outstanding connect call. With clean_session
\* the broker discards the session state (the subscriptions) it held.
\* get_client awaits its own connect call and returns the error with `?`;
\* nothing awaits the token of the callback's connect call.
ConnectComplete ==
    /\ proc = "running"
    /\ connState = "Connecting"
    /\ Len(inFlight) = 1
    /\ \E ok \in BOOLEAN :
        /\ connState' = IF ok THEN "Connected" ELSE "Disconnected"
        /\ subs' = IF ok /\ inFlight[1].ops.clean_session THEN {} ELSE subs
        /\ IF mainPc = "connecting"
           THEN IF ok THEN mainPc' = "subscribe" /\ proc' = proc
                      ELSE mainPc' = mainPc /\ proc' = "exited"
           ELSE mainPc' = mainPc /\ proc' = proc
    /\ inFlight' = <<>>
    /\ UNCHANGED <<now, mainNow, client, obsPc, obsReason, obsNow, obsStart,
                   mints, attempts, obsLog, subscribeCalls, stream, listener,
                   handled, cmdLog, pubInFlight, pubFailed, produced, published>>
    /\ UNCHANGED <<loopVars, feederVars, robotVars, restVars, cycleVars>>

\* main: get_stream, subscribe to the config topic, spawn the listener and
\* open the GPIO lines, up to the first wait of the hardware loop.
Subscribe ==
    /\ proc = "running"
    /\ mainPc = "subscribe"
    /\ subscribeCalls' = subscribeCalls + 1
    /\ IF connState = "Connected"
       THEN /\ subs' = subs \cup {ConfigTopic}
            /\ listener' = "running"
            /\ mainPc' = "wait_pos1"
            /\ proc' = proc
       ELSE /\ proc' = "exited"
            /\ UNCHANGED <<subs, listener, mainPc>>
    /\ UNCHANGED <<now, mainNow, client, connState, inFlight, obsPc, obsReason,
                   obsNow, obsStart, mints, attempts, obsLog, stream, handled,
                   cmdLog, pubInFlight, pubFailed, produced, published>>
    /\ UNCHANGED <<loopVars, feederVars, robotVars, restVars, cycleVars>>

\* The transport drops the session and invokes the disconnected callback
\* with a reason code. A publish the loop awaits resolves to an error.
Disconnect ==
    /\ proc = "running"
    /\ connState = "Connected"
    /\ obsPc = "idle"
    /\ Len(obsLog) < MaxDisconnects
    /\ \E reason_code \in ReasonCode :
        obsReason' = reason_code
    /\ connState' = "Disconnected"
    /\ obsPc' = "invoked"
    /\ obsStart' = now
    /\ pubFailed' = (Len(pubInFlight) = 1)
    /\ UNCHANGED <<now, proc, mainPc, mainNow, client, inFlight, obsNow, mints,
                   attempts, obsLog, subs, subscribeCalls, stream, listener,
                   handled, cmdLog, pubInFlight, produced, published>>
    /\ UNCHANGED <<loopVars, feederVars, robotVars, restVars, cycleVars>>

\* The disconnected callback, from its entry: the match on the reason code.
\* KeepAliveTimeout: block_on(new_password_jwt()), which reads the clock and
\* then waits for the key file. Any other reason: log and return.
DisconnectedCallback ==
    /\ proc = "running"
    /\ obsPc = "invoked"
    /\ IF obsReason = "KeepAliveTimeout"
       THEN /\ obsNow' = now
            /\ obsPc' = "minting"
            /\ obsLog' = obsLog
       ELSE /\ obsNow' = obsNow
            /\ obsPc' = "idle"
            /\ obsLog' = Append(obsLog,
                  [reason |-> obsReason, mints |-> 0, connects |-> 0,
                   ended |-> "returned", state |-> connState])
    /\ UNCHANGED <<now, proc, mainPc, mainNow, client, connState, inFlight,
                   obsReason, obsStart, mints, attempts, subs, subscribeCalls,
                   stream, listener, handled, cmdLog, pubInFlight, pubFailed,
                   produced, published>>
    /\ UNCHANGED <<loopVars, feederVars, robotVars, restVars, cycleVars>>

\* The KeepAliveTimeout branch after the key file read: build the options,
\* call client.connect(connect_options), drop the token and return. An
\* unreadable key or a signing failure panics inside the callback.
CallbackReconnect ==
    /\ proc = "running"
    /\ obsPc = "minting"
    /\ \E keyOk \in BOOLEAN :
        IF keyOk
        THEN LET jwt == new_password_jwt(obsNow, mints + 1) IN
             /\ mints' = mints + 1
             /\ inFlight' = <<[ops |-> get_connect_ops(jwt), by |-> "callback"]>>
             /\ connState' = "Connecting"
             /\ attempts' = Append(attempts,
                   [by |-> "callback", cred |-> jwt, since |-> obsStart,
                    called |-> now, client_id |-> client.client_id,
                    server_uri |-> client.server_uri])
             /\ obsLog' = Append(obsLog,
                   [reason |-> obsReason, mints |-> 1, connects |-> 1,
                    ended |-> "returned", state |-> "Connecting"])
             /\ obsPc' = "idle"
             /\ proc' = proc
        ELSE /\ proc' = "aborted"
             /\ obsLog' = Append(obsLog,
                   [reason |-> obsReason, mints |-> 1, connects |-> 0,
                    ended |-> "panicked", state |-> connState])
             /\ UNCHANGED <<mints, inFlight, connState, attempts, obsPc>>
    /\ UNCHANGED <<now, mainPc, mainNow, client, obsReason, obsNow, obsStart,
                   subs, subscribeCalls, stream, listener, handled, cmdLog,
                   pubInFlight, pubFailed, produced, published>>
    /\ UNCHANGED <<loopVars, feederVars, robotVars, restVars, cycleVars>>

\* The cloud publishes a command on the config topic. The broker forwards it
\* to the client only while the session is connected and subscribed; the
\* client puts it on the stream the listener reads.
CloudPublishOf(max, payloads) ==
    /\ proc = "running"
    /\ Len(cmdLog) < max
    /\ \E payload \in payloads :
       LET delivered == connState = "Connected" /\ ConfigTopic \in subs
           id == Len(cmdLog) + 1 IN
        /\ cmdLog' = Append(cmdLog,
              [id |-> id, connected |-> (connState = "Connected"),
               by |-> ConnectedBy, delivered |-> delivered,
               subscribeCalls |-> subscribeCalls, payload |-> payload])
        /\ stream' = IF delivered THEN Append(stream, id) ELSE stream
    /\ UNCHANGED <<now, proc, mainPc, mainNow, client, connState, inFlight,
                   obsPc, obsReason, obsNow, obsStart, mints, attempts, obsLog,
                   subs, subscribeCalls, listener, handled, pubInFlight,
                   pubFailed, produced, published>>
    /\ UNCHANGED <<loopVars, feederVars, robotVars, restVars, cycleVars>>

\* a start request as the tests of message.rs write it
CloudPublish == CloudPublishOf(MaxCommands, {StartRequest5})

\* a command of any shape: well formed, with a negative count, not a number
InboundCloudPublish == CloudPublishOf(MaxInbound, Payloads)

\* The spawned listener task: while let Some(msg) = stream.next().await
\* { info!("{:?}", msg) }. The body logs the message whatever it holds, and
\* the loop goes on to the next one.
\* faulty variant: the task ends on a message that does not decode
ListenerAfter_ends_on_malformed(payload) ==
    IF WellFormed(payload) THEN "running" ELSE "ended"
ListenerAfter(payload) == "running"

Listener ==
    /\ proc = "running"
    /\ listener = "running"
    /\ Len(stream) > 0
    /\ handled' = Append(handled, Head(stream))
    /\ stream' = Tail(stream)
    /\ listener' = ListenerAfter(cmdLog[Head(stream)].payload)
    /\ UNCHANGED <<now, proc, mainPc, mainNow, client, connState, inFlight,
                   obsPc, obsReason, obsNow, obsStart, mints, attempts, obsLog,
                   subs, subscribeCalls, cmdLog, pubInFlight,
                   pubFailed, produced, published>>
    /\ UNCHANGED <<loopVars, feederVars, robotVars, restVars, cycleVars>>

\* The event stream of one of main's GPIO lines ends: next() yields None
\* from then on.
GpioClose ==
    /\ proc = "running"
    /\ mainPc \in {"wait_pos1", "pub_pos1", "wait_loc", "pub_pos15"}
    /\ \E line \in GpioLines \ gpioClosed :
        gpioClosed' = gpioClosed \cup {line}
    /\ UNCHANGED <<sessionVars, edgeLog, feederVars, robotVars, restVars, cycleVars>>

\* Hardware loop: pos_1_stream.next() returns (its result is not looked at),
\* the Position1 message is built and client.publish(msg).await? is called.
LoopPos1 ==
    /\ proc = "running"
    /\ mainPc = "wait_pos1"
    /\ Len(produced) < MaxEvents
    /\ PublishCall("Position1", "pub_pos1")
    /\ UNCHANGED <<now, mainNow, client, connState, inFlight, obsPc, obsReason,
                   obsNow, obsStart, mints, attempts, obsLog, subs,
                   subscribeCalls, stream, listener, handled, cmdLog,
                   pubFailed, published>>
    /\ edgeLog' = Append(edgeLog, "pos_1" \notin gpioClosed)
    /\ UNCHANGED <<gpioClosed, feederVars, robotVars, restVars, cycleVars>>

\* Hardware loop: loc_reached_stream.next() returns (its result is not looked
\* at), the Position15 message
\* is built and client.publish(msg).await? is called.
LoopLocReached ==
    /\ proc = "running"
    /\ mainPc = "wait_loc"
    /\ Len(produced) < MaxEvents
    /\ PublishCall("Position15", "pub_pos15")
    /\ UNCHANGED <<now, mainNow, client, connState, inFlight, obsPc, obsReason,
                   obsNow, obsStart, mints, attempts, obsLog, subs,
                   subscribeCalls, stream, listener, handled, cmdLog,
                   pubFailed, published>>
    /\ edgeLog' = Append(edgeLog, "loc_reached" \notin gpioClosed)
    /\ UNCHANGED <<gpioClosed, feederVars, robotVars, restVars, cycleVars>>

\* The awaited publish completes: the broker has the message and the loop
\* goes on to its next hardware wait.
PublishComplete ==
    /\ proc = "running"
    /\ mainPc \in {"pub_pos1", "pub_pos15"}
    /\ Len(pubInFlight) = 1
    /\ ~pubFailed
    /\ connState = "Connected"
    /\ published' = Append(published, pubInFlight[1])
    /\ pubInFlight' = <<>>
    /\ mainPc' = IF mainPc = "pub_pos1" THEN "wait_loc" ELSE "wait_pos1"
    /\ UNCHANGED <<now, proc, mainNow, client, connState, inFlight, obsPc,
                   obsReason, obsNow, obsStart, mints, attempts, obsLog, subs,
                   subscribeCalls, stream, listener, handled, cmdLog,
                   pubFailed, produced>>
    /\ UNCHANGED <<loopVars, feederVars, robotVars, restVars, cycleVars>>

\* The awaited publish resolved to an error: `?` returns it from main.
PublishError ==
    /\ proc = "running"
    /\ mainPc \in {"pub_pos1", "pub_pos15"}
    /\ pubFailed
    /\ proc' = "exited"
    /\ UNCHANGED <<now, mainPc, mainNow, client, connState, inFlight, obsPc,
                   obsReason, obsNow, obsStart, mints, attempts, obsLog, subs,
                   subscribeCalls, stream, listener, handled, cmdLog,
                   pubInFlight, pubFailed, produced, published>>
    /\ UNCHANGED <<loopVars, feederVars, robotVars, restVars, cycleVars>>

SessionNext ==
    \/ Tick
    \/ GetClientMintBegin
    \/ GetClientConnect
    \/ ConnectComplete
    \/ Subscribe
    \/ Disconnect
    \/ DisconnectedCallback
    \/ CallbackReconnect
    \/ CloudPublish
    \/ Listener
    \/ LoopPos1
    \/ LoopLocReached
    \/ PublishComplete
    \/ PublishError

\* the session and the inbound listener, with commands of any shape
InboundNext ==
    \/ GetClientMintBegin
    \/ GetClientConnect
    \/ ConnectComplete
    \/ Subscribe
    \/ Disconnect
    \/ DisconnectedCallback
    \/ CallbackReconnect
    \/ InboundCloudPublish
    \/ Listener

\* the session and the hardware loop with GPIO lines whose stream can end
LoopNext ==
    \/ GetClientMintBegin
    \/ GetClientConnect
    \/ ConnectComplete
    \/ Subscribe
    \/ Disconnect
    \/ DisconnectedCallback
    \/ CallbackReconnect
    \/ LoopPos1
    \/ LoopLocReached
    \/ PublishComplete
    \/ PublishError
    \/ GpioClose

\* ======================================================================
\* Feeder: manufacturing_components/feeder.rs
\* ======================================================================

\* async_next_event: if self.count == 0 { return Err(Error::NoMoreSupply) }
\* faulty variants: the check compares with 1; the check is missing
NoMoreSupply_off_by_one(c) == c = Big(1)
NoMoreSupply_never(c) == FALSE
NoMoreSupply(c) == c = Big(0)

\* async_next_event: self.count -= 1, on a u32
DecrementCount(c) == Wrap32(BigSub(c, Big(1)))

\* add_new_material: self.count += new_material_count, on a u32
add_new_material(c, n) == Wrap32(BigAdd(c, n))

\* the sum of add_new_material does not fit a u32
Overflows(c, n) == BigAdd(c, n)[1] >= Half

FeederInit ==
    /\ initCount \in {Big(k) : k \in 0..MaxInitCount}
                     \cup {BigSub(U32Max, Big(k)) : k \in 0..MaxBelowTop}
    /\ count = initCount
    /\ feederPc = "idle"
    /\ overflowChecks \in BOOLEAN
    /\ feederRet = "none"
    /\ linePending = 0
    /\ lineClosed = FALSE
    /\ feederCalls = 0
    /\ feederDecs = 0
    /\ edgesSeen = 0
    /\ yielded = 0
    /\ added = Big(0)
    /\ addPc = "idle"
    /\ addArg = Big(0)
    /\ addSnap = <<>>
    /\ addLog = <<>>

\* the feeder line sees an edge (BOTH_EDGES): the kernel queues an event
line_edge ==
    /\ ~lineClosed
    /\ linePending < MaxPending
    /\ linePending' = linePending + 1
    /\ UNCHANGED <<count, initCount, overflowChecks, feederPc, feederRet, lineClosed,
                   feederCalls, feederDecs, edgesSeen, yielded, added, addPc,
                   addArg, addSnap, addLog>>

\* an edge on the line of a feeder used on its own
LineEdge ==
    /\ line_edge
    /\ UNCHANGED <<sessionVars, loopVars, robotVars, restVars, cycleVars>>

\* the event stream of the feeder line ends: next() yields None once the
\* queued events are taken
line_close ==
    /\ ~lineClosed
    /\ lineClosed' = TRUE
    /\ UNCHANGED <<count, initCount, overflowChecks, feederPc, feederRet, linePending,
                   feederCalls, feederDecs, edgesSeen, yielded, added, addPc,
                   addArg, addSnap, addLog>>

\* the stream of a feeder used on its own ends
LineClose ==
    /\ line_close
    /\ UNCHANGED <<sessionVars, loopVars, robotVars, restVars, cycleVars>>

\* Feeder::async_next_event up to its await: the exhaustion check, then
\* self.event_handle.next().await. The call holds &mut self.
async_next_event_call ==
    /\ feederPc = "idle"
    /\ feederCalls < MaxFeederOps
    /\ feederCalls' = feederCalls + 1
    /\ IF NoMoreSupply(count)
       THEN /\ feederRet' = "Err(NoMoreSupply)"
            /\ feederPc' = "idle"
       ELSE /\ feederRet' = "pending"
            /\ feederPc' = "awaiting"
    /\ UNCHANGED <<count, initCount, overflowChecks, linePending, lineClosed, feederDecs,
                   edgesSeen, yielded, added, addPc, addArg, addSnap, addLog>>

\* a call of async_next_event on a feeder used on its own
AsyncNextEventCall ==
    /\ async_next_event_call
    /\ UNCHANGED <<sessionVars, loopVars, robotVars, restVars, cycleVars>>

\* Feeder::async_next_event from its await: if let Some(_event) the count is
\* decremented; in both cases Ok(Event::MaterialPickedUp) is returned.
async_next_event_resume ==
    /\ feederPc = "awaiting"
    /\ linePending > 0 \/ lineClosed
    /\ IF linePending > 0
       THEN /\ linePending' = linePending - 1
            /\ count' = DecrementCount(count)
            /\ feederDecs' = feederDecs + 1
            /\ edgesSeen' = edgesSeen + 1
       ELSE UNCHANGED <<linePending, count, feederDecs, edgesSeen>>
    /\ feederRet' = "Ok(MaterialPickedUp)"
    /\ yielded' = yielded + 1
    /\ feederPc' = "idle"
    /\ UNCHANGED <<initCount, overflowChecks, lineClosed, feederCalls, added, addPc, addArg,
                   addSnap, addLog>>

\* the call resumes, on a feeder used on its own
AsyncNextEventResume ==
    /\ async_next_event_resume
    /\ UNCHANGED <<sessionVars, loopVars, robotVars, restVars, cycleVars>>

\* A second actor wants to call add_new_material(n). The method takes
\* &mut self, so it runs only when no async_next_event call holds the feeder.
AddRequest ==
    /\ addPc = "idle"
    /\ feederPc /= "panicked"
    /\ Len(addLog) < MaxAdd
    /\ \E n \in {Big(k) : k \in 0..MaxAdd} \cup {U32Max} :
        addArg' = n
    /\ addPc' = "waiting"
    /\ addSnap' = <<[count |-> count, edges |-> edgesSeen,
                     suspended |-> (feederPc = "awaiting")]>>
    /\ UNCHANGED <<count, initCount, overflowChecks, feederPc, feederRet, linePending,
                   lineClosed, feederCalls, feederDecs, edgesSeen, yielded,
                   added, addLog>>
    /\ UNCHANGED <<sessionVars, loopVars, robotVars, restVars, cycleVars>>

\* Feeder::add_new_material. A sum that does not fit the u32 panics in a
\* build with overflow checks and wraps in a build without.
AddNewMaterial ==
    /\ addPc = "waiting"
    /\ feederPc = "idle"
    /\ addPc' = "idle"
    /\ addSnap' = <<>>
    /\ IF Overflows(count, addArg) /\ overflowChecks
       THEN /\ feederPc' = "panicked"
            /\ UNCHANGED <<count, added, addLog>>
       ELSE /\ count' = add_new_material(count, addArg)
            /\ added' = BigAdd(added, addArg)
            /\ addLog' = Append(addLog,
                  [n |-> addArg, before |-> count, after |-> count',
                   asked |-> addSnap[1], edges |-> edgesSeen])
            /\ feederPc' = feederPc
    /\ UNCHANGED <<initCount, overflowChecks, feederRet, linePending,
                   lineClosed, feederCalls, feederDecs, edgesSeen, yielded,
                   addArg>>
    /\ UNCHANGED <<sessionVars, loopVars, robotVars, restVars, cycleVars>>

FeederNext ==
    \/ LineEdge
    \/ LineClose
    \/ AsyncNextEventCall
    \/ AsyncNextEventResume
    \/ AddRequest
    \/ AddNewMaterial

\* ======================================================================
\* Robot: manufacturing_components/robot.rs
\* ======================================================================

\* the match of Robot::async_next_event
\* faulty variant: Position15 goes back to Position1
NextPosition_skip66(p) ==
    CASE p = "Position1" -> "Position15"
      [] p = "Position15" -> "Position1"
      [] p = "Position66" -> "Position1"
NextPosition(p) ==
    CASE p = "Position1" -> "Position15"
      [] p = "Position15" -> "Position66"
      [] p = "Position66" -> "Position1"

\* the if let Some(_event) of Robot::async_next_event: the match runs only
\* when the stream yielded an event
\* faulty variant: the match runs whether or not an event was yielded
PositionAfter_unconditional(p, got) == NextPosition(p)
PositionAfter(p, got) == IF got THEN NextPosition(p) ELSE p

\* RobotPosition::default
DefaultPosition == "Position1"

RobotInit ==
    /\ position = DefaultPosition
    /\ robotPc = "idle"
    /\ robotPending = 0
    /\ robotClosed = FALSE
    /\ robotCalls = 0
    /\ robotRet = "none"
    /\ robotEdges = 0
    /\ posHist = <<DefaultPosition>>

\* the robot line sees a rising edge
RobotEdge ==
    /\ ~robotClosed
    /\ robotPending < MaxPending
    /\ robotPending' = robotPending + 1
    /\ UNCHANGED <<position, robotPc, robotClosed, robotCalls, robotRet,
                   robotEdges, posHist>>
    /\ UNCHANGED <<sessionVars, loopVars, feederVars, restVars, cycleVars>>

\* the event stream of the robot line ends
RobotClose ==
    /\ ~robotClosed
    /\ robotClosed' = TRUE
    /\ UNCHANGED <<position, robotPc, robotPending, robotCalls, robotRet,
                   robotEdges, posHist>>
    /\ UNCHANGED <<sessionVars, loopVars, feederVars, restVars, cycleVars>>

\* Robot::async_next_event up to its await
RobotNextEventCall ==
    /\ robotPc = "idle"
    /\ robotCalls < MaxEdges
    /\ robotCalls' = robotCalls + 1
    /\ robotPc' = "awaiting"
    /\ robotRet' = "pending"
    /\ UNCHANGED <<position, robotPending, robotClosed, robotEdges, posHist>>
    /\ UNCHANGED <<sessionVars, loopVars, feederVars, restVars, cycleVars>>

\* Robot::async_next_event from its await: the position advances if the
\* stream yielded an event; Ok(()) is returned in both cases.
RobotNextEventResume ==
    /\ robotPc = "awaiting"
    /\ robotPending > 0 \/ robotClosed
    /\ position' = PositionAfter(position, robotPending > 0)
    /\ IF robotPending > 0
       THEN /\ robotPending' = robotPending - 1
            /\ robotEdges' = robotEdges + 1
            /\ posHist' = Append(posHist, position')
       ELSE UNCHANGED <<robotPending, robotEdges, posHist>>
    /\ robotRet' = "Ok"
    /\ robotPc' = "idle"
    /\ UNCHANGED <<robotClosed, robotCalls>>
    /\ UNCHANGED <<sessionVars, loopVars, feederVars, restVars, cycleVars>>

RobotNext ==
    \/ RobotEdge
    \/ RobotClose
    \/ RobotNextEventCall
    \/ RobotNextEventResume

\* ======================================================================
\* StartRequest texts tried: gcp_iot/message.rs tests
\* ======================================================================

\* leading digits of the texts tried: short counts, and counts around 2^16
\* and 2^32
Prefixes == {<<>>, <<6, 5, 5>>, <<4, 2, 9, 4, 9, 6, 7, 2>>}

DecodeInit ==
    /\ reqNeg \in BOOLEAN
    /\ reqDigits \in Prefixes
    /\ reqTyped = 0
    /\ decodePc = "text"
    /\ decoded = [ok |-> FALSE, count |-> Big(0)]

\* one more digit of the payload
TypeDigit ==
    /\ decodePc = "text"
    /\ reqTyped < MaxTyped
    /\ \E d \in 0..9 : reqDigits' = Append(reqDigits, d)
    /\ reqTyped' = reqTyped + 1
    /\ UNCHANGED <<reqNeg, decodePc, decoded>>
    /\ UNCHANGED <<sessionVars, loopVars, feederVars, robotVars, cycleVars, programVars>>

\* serde_json::from_str(&json) of the payload
DecodeRequest ==
    /\ decodePc = "text"
    /\ decodePc' = "decoded"
    /\ decoded' = Decode(reqNeg, reqDigits)
    /\ UNCHANGED <<reqNeg, reqDigits, reqTyped>>
    /\ UNCHANGED <<sessionVars, loopVars, feederVars, robotVars, cycleVars, programVars>>

DecodeNext ==
    \/ TypeDigit
    \/ DecodeRequest

\* ======================================================================
\* Production cycle: manufacturing_components/program.rs and the
\* CycleController of the specification, section 4.4, on the Feeder above
\* ======================================================================

\* SimplifiedScenario2: start is line_handle.set_value(1), stop is
\* line_handle.set_value(0); the line is requested with default 0
\* faulty variant: start leaves the line as it is
start_keeps_line(v) == v
start(v) == 1
\* faulty variant: stop inverts the line
stop_inverts_line(v) == 1 - v
stop(v) == 0
ProgramDefault == 0

\* Feeder::is_empty: request.get_value().unwrap() == 1
is_empty(level) == level = 1

CycleInit ==
    /\ programLine = ProgramDefault
    /\ programCalls = <<>>
    /\ lineLevel \in {0, 1}
    /\ cyclePc = "idle"
    /\ cycleN = 0
    /\ cycleDone = 0
    /\ cycleResult = "none"
    /\ cycleLog = <<>>
    /\ outQueue = <<>>

CycleEntry(ev) == [ev |-> ev, pick |-> cycleDone + 1, line |-> programLine]

\* the issuer asks for one cycle of N picks
CycleRequest ==
    /\ cyclePc = "idle"
    /\ cycleResult = "none"
    /\ \E N \in 1..MaxPicks : cycleN' = N
    /\ cyclePc' = "start"
    /\ UNCHANGED <<programLine, programCalls, lineLevel, cycleDone, cycleResult,
                   cycleLog, outQueue>>
    /\ UNCHANGED <<sessionVars, loopVars, feederVars, robotVars, restVars>>

\* step 1: program.start(); a hardware-access error is propagated
CycleStart ==
    /\ cyclePc = "start"
    /\ programCalls' = Append(programCalls, "start")
    /\ \E ok \in BOOLEAN :
        IF ok
        THEN /\ programLine' = start(programLine)
             /\ cycleLog' = Append(cycleLog,
                   [ev |-> "start", pick |-> 0, line |-> programLine'])
             /\ cyclePc' = "assert"
             /\ cycleResult' = cycleResult
        ELSE /\ cyclePc' = "done"
             /\ cycleResult' = "Err(Hardware)"
             /\ UNCHANGED <<programLine, cycleLog>>
    /\ UNCHANGED <<lineLevel, cycleN, cycleDone, outQueue>>
    /\ UNCHANGED <<sessionVars, loopVars, feederVars, robotVars, restVars>>

\* step 2, head of an iteration: assert the feeder is not reported empty
CycleAssert ==
    /\ cyclePc = "assert"
    /\ cyclePc' = IF is_empty(lineLevel) THEN "panicked" ELSE "pickup"
    /\ UNCHANGED <<programLine, programCalls, lineLevel, cycleN, cycleDone,
                   cycleResult, cycleLog, outQueue>>
    /\ UNCHANGED <<sessionVars, loopVars, feederVars, robotVars, restVars>>

\* the controller's await of a feeder event, up to the suspension of
\* async_next_event; NoMoreSupply aborts the cycle
CycleAwaitCall(here, waiting) ==
    /\ cyclePc = here
    /\ async_next_event_call
    /\ IF feederRet' = "Err(NoMoreSupply)"
       THEN cyclePc' = "done" /\ cycleResult' = "Err(NoMoreSupply)"
       ELSE cyclePc' = waiting /\ cycleResult' = cycleResult
    /\ UNCHANGED <<programLine, programCalls, lineLevel, cycleN, cycleDone,
                   cycleLog, outQueue>>
    /\ UNCHANGED <<sessionVars, loopVars, robotVars, restVars>>

\* step 2: await the feeder's next pickup event
CyclePickupCall == CycleAwaitCall("pickup", "pickup_wait")

\* step 2: the pickup event arrives and is forwarded to the outbound queue
CyclePickupResume ==
    /\ cyclePc = "pickup_wait"
    /\ async_next_event_resume
    /\ outQueue' = Append(outQueue, "MaterialPickedUp")
    /\ cycleLog' = Append(cycleLog, CycleEntry("pickup"))
    /\ cyclePc' = "place"
    /\ UNCHANGED <<programLine, programCalls, lineLevel, cycleN, cycleDone,
                   cycleResult>>
    /\ UNCHANGED <<sessionVars, loopVars, robotVars, restVars>>

\* step 2: await the feeder's next placement event
CyclePlaceCall == CycleAwaitCall("place", "place_wait")

\* step 2: the placement event arrives; the iteration is complete
CyclePlaceResume ==
    /\ cyclePc = "place_wait"
    /\ async_next_event_resume
    /\ cycleLog' = Append(cycleLog, CycleEntry("placement"))
    /\ cycleDone' = cycleDone + 1
    /\ cyclePc' = IF cycleDone' = cycleN THEN "stop" ELSE "assert"
    /\ UNCHANGED <<programLine, programCalls, lineLevel, cycleN, cycleResult,
                   outQueue>>
    /\ UNCHANGED <<sessionVars, loopVars, robotVars, restVars>>

\* steps 3 and 4: program.stop(), then the count completed is returned
CycleStop ==
    /\ cyclePc = "stop"
    /\ programCalls' = Append(programCalls, "stop")
    /\ cyclePc' = "done"
    /\ \E ok \in BOOLEAN :
        IF ok
        THEN /\ programLine' = stop(programLine)
             /\ cycleLog' = Append(cycleLog,
                   [ev |-> "stop", pick |-> cycleDone, line |-> programLine'])
             /\ cycleResult' = "Ok"
        ELSE /\ cycleResult' = "Err(Hardware)"
             /\ UNCHANGED <<programLine, cycleLog>>
    /\ UNCHANGED <<lineLevel, cycleN, cycleDone, outQueue>>
    /\ UNCHANGED <<sessionVars, loopVars, feederVars, robotVars, restVars>>

\* an edge on the feeder line (BOTH_EDGES): the level changes and the kernel
\* queues an event
CycleLineEdge ==
    /\ line_edge
    /\ lineLevel' = 1 - lineLevel
    /\ UNCHANGED <<programLine, programCalls, cyclePc, cycleN, cycleDone,
                   cycleResult, cycleLog, outQueue>>
    /\ UNCHANGED <<sessionVars, loopVars, robotVars, restVars>>

\* the event stream of the feeder line ends
CycleLineClose ==
    /\ line_close
    /\ UNCHANGED <<cycleVars, sessionVars, loopVars, robotVars, restVars>>

CycleNext ==
    \/ CycleRequest
    \/ CycleStart
    \/ CycleAssert
    \/ CyclePickupCall
    \/ CyclePickupResume
    \/ CyclePlaceCall
    \/ CyclePlaceResume
    \/ CycleStop
    \/ CycleLineEdge
    \/ CycleLineClose

\* ----------------------------------------------------------------------
\* SimplifiedScenario2 called by any caller, in any order
\* ----------------------------------------------------------------------

ProgramInit == programLog = <<>>

\* one call of start or stop: line_handle.set_value(..) either sets the line
\* and returns Ok(()), or returns the hardware error without setting it
ProgramCall(op, ok) ==
    /\ Len(programLog) < MaxProgramCalls
    /\ programLine' = IF ~ok THEN programLine
                      ELSE IF op = "start" THEN start(programLine)
                      ELSE stop(programLine)
    /\ programCalls' = Append(programCalls, op)
    /\ programLog' = Append(programLog,
          [op |-> op, ok |-> ok, before |-> programLine, after |-> programLine'])
    /\ UNCHANGED <<lineLevel, cyclePc, cycleN, cycleDone, cycleResult, cycleLog,
                   outQueue>>
    /\ UNCHANGED <<sessionVars, loopVars, feederVars, robotVars, decodeVars>>

\* ManufacturingProgram::start of SimplifiedScenario2
ProgramStart == \E ok \in BOOLEAN : ProgramCall("start", ok)

\* ManufacturingProgram::stop of SimplifiedScenario2
ProgramStop == \E ok \in BOOLEAN : ProgramCall("stop", ok)

ProgramNext ==
    \/ ProgramStart
    \/ ProgramStop

\* ======================================================================
\* Specifications
\* ======================================================================

Init == SessionInit /\ FeederInit /\ RobotInit /\ DecodeInit /\ CycleInit
        /\ ProgramInit

Next == SessionNext \/ InboundNext \/ LoopNext \/ FeederNext \/ RobotNext \/ DecodeNext \/ CycleNext
        \/ ProgramNext

Spec == Init /\ [][Next]_vars

\* one component at a time; the other components stay as constructed
FixedFeeder == initCount = Big(0) /\ overflowChecks = FALSE
FixedRequest == ~reqNeg /\ reqDigits = <<>>
FixedLevel == lineLevel = 0
InitFixedFeeder == Init /\ FixedFeeder /\ FixedRequest /\ FixedLevel
InitFeeder == Init /\ FixedRequest /\ FixedLevel
InitDecode == Init /\ FixedFeeder /\ FixedLevel
InitCycle == Init /\ FixedRequest /\ overflowChecks = FALSE
SpecSession == InitFixedFeeder /\ [][SessionNext]_vars
SpecFeeder == InitFeeder /\ [][FeederNext]_vars
SpecRobot == InitFixedFeeder /\ [][RobotNext]_vars
SpecDecode == InitDecode /\ [][DecodeNext]_vars
SpecCycle == InitCycle /\ [][CycleNext]_vars
SpecProgram == InitFixedFeeder /\ [][ProgramNext]_vars
SpecInbound == InitFixedFeeder /\ [][InboundNext]_vars
\* every step that can be taken is taken in the end: the tasks are scheduled
FairSpecInbound == SpecInbound /\ WF_vars(InboundNext)
SpecLoop == InitFixedFeeder /\ [][LoopNext]_vars

\* ======================================================================
\* Properties
\* ======================================================================

LoopPcs == {"wait_pos1", "pub_pos1", "wait_loc", "pub_pos15"}

\* C1: every invocation of the disconnected callback with KeepAliveTimeout
\* performs exactly one credential mint followed by exactly one connect call;
\* every invocation with another reason performs no mint and no connect call
\* and leaves the session disconnected.
C1_OneRotationPerKeepAliveTimeout ==
    \A i \in 1..Len(obsLog) :
        IF obsLog[i].reason = "KeepAliveTimeout"
        THEN obsLog[i].mints = 1 /\ obsLog[i].connects = 1
        ELSE /\ obsLog[i].mints = 0
             /\ obsLog[i].connects = 0
             /\ obsLog[i].state = "Disconnected"

\* C2: a connect call issued by the disconnected callback is outstanding only
\* while the callback is still running: the callback does not return before
\* the reconnect it started has succeeded or failed.
C2_CallbackReturnsAfterReconnect ==
    (Len(inFlight) = 1 /\ inFlight[1].by = "callback") => obsPc /= "idle"

\* C3: once the program has subscribed to the config topic, a command the
\* cloud publishes while the session is connected through a rotation reconnect
\* is delivered to the inbound listener's stream, without a further subscribe.
C3_SubscribedAfterRotation ==
    \A i \in 1..Len(cmdLog) :
        (/\ cmdLog[i].connected
         /\ cmdLog[i].by = "callback"
         /\ cmdLog[i].subscribeCalls >= 1) => cmdLog[i].delivered

\* C4: when the only disconnects were KeepAliveTimeout disconnects, the
\* hardware loop has not halted and no event it produced is lost: every
\* produced event is published or is the one whose publish is pending.
C4_NoEventLostAcrossRotation ==
    LET katOnly == /\ \A i \in 1..Len(obsLog) : obsLog[i].reason = "KeepAliveTimeout"
                   /\ obsReason \in {"none", "KeepAliveTimeout"}
    IN (katOnly /\ mainPc \in LoopPcs) =>
           /\ proc /= "exited"
           /\ produced = published \o pubInFlight

\* C5: the i-th connect call uses the i-th minted credential, whose issue time
\* was read from the clock after the event the call answers (process start,
\* or the disconnect) and after the previous connect call, never after the
\* call itself; every call uses the client identity and endpoint of the first.
C5_FreshCredentialPerConnect ==
    \A i \in 1..Len(attempts) :
        LET a == attempts[i] IN
        /\ a.cred.serial = i
        /\ \A j \in 1..Len(attempts) : j /= i => attempts[j].cred /= a.cred
        /\ a.since <= a.cred.iat
        /\ a.cred.iat <= a.called
        /\ i > 1 => attempts[i - 1].called <= a.cred.iat
        /\ a.client_id = attempts[1].client_id
        /\ a.server_uri = attempts[1].server_uri
        /\ a.client_id = MqttClientId
        /\ a.server_uri = ServerUri

\* C5 witness: a rotation reconnect was issued after the clock had advanced
C5_Witness ==
    /\ Len(attempts) >= 2
    /\ attempts[2].by = "callback"
    /\ attempts[2].cred.iat > attempts[1].cred.iat
    /\ attempts[2].called > attempts[2].cred.iat

\* C6: a call of Feeder.async_next_event while count is 0 returns
\* Err(NoMoreSupply) at once: it does not suspend, takes no edge event from
\* the line and leaves count at 0; the feeder never waits on the line with
\* count 0.
C6_EmptyFeederFailsWithoutWaiting ==
    [][ /\ (feederCalls' = feederCalls + 1 /\ count = Big(0)) =>
            /\ feederRet' = "Err(NoMoreSupply)"
            /\ feederPc' = "idle"
            /\ count' = Big(0)
            /\ linePending' = linePending
            /\ edgesSeen' = edgesSeen
        /\ feederPc' = "awaiting" => count' /= Big(0) ]_vars

\* C6 witness: the empty feeder refused a call while an edge event was queued
C6_Witness ==
    /\ feederRet = "Err(NoMoreSupply)"
    /\ count = Big(0)
    /\ linePending > 0

\* C7: every MaterialPickedUp yielded by Feeder.async_next_event stands for
\* exactly one observed edge and exactly one decrement of count, so that the
\* decrements (initial count + total replenished - count) number the
\* MaterialPickedUp yielded.
C7_PickupMeansEdgeAndDecrement ==
    /\ yielded = edgesSeen
    /\ yielded = feederDecs

\* C8: count is decremented only when it is at least 1, and the decrement
\* yields exactly count - 1: no unsigned underflow, no clamping.
C8_CountNeverUnderflows ==
    [][ feederDecs' = feederDecs + 1 =>
            /\ BigLt(Big(0), count)
            /\ count' = BigSub(count, Big(1)) ]_vars

\* C8 witness: the feeder was replenished and then emptied by pickups
C8_Witness ==
    /\ count = Big(0)
    /\ feederDecs >= 2
    /\ BigLt(Big(0), added)

\* C9: when add_new_material(n) is invoked while async_next_event is in
\* progress, the count after the call is the count at the moment of the
\* invocation plus n minus the pickups consumed in between; over the whole
\* run count = initial count + total replenished - pickups consumed.
C9_NoLostUpdate ==
    /\ \A i \in 1..Len(addLog) :
          LET r == addLog[i] IN
          r.after = BigSub(BigAdd(r.asked.count, r.n), Big(r.edges - r.asked.edges))
    /\ count = BigSub(BigAdd(initCount, added), Big(edgesSeen))

\* C10: the robot starts at Position1; every observed edge advances it
\* Position1 -> Position15 -> Position66 -> Position1; from every position,
\* three observed edges lead back to it and one or two do not.
C10_RobotCycle ==
    /\ posHist[1] = "Position1"
    /\ Len(posHist) = robotEdges + 1
    /\ position = posHist[Len(posHist)]
    /\ \A i \in 1..Len(posHist) :
        /\ i + 1 <= Len(posHist) =>
              /\ posHist[i] = "Position1" => posHist[i + 1] = "Position15"
              /\ posHist[i] = "Position15" => posHist[i + 1] = "Position66"
              /\ posHist[i] = "Position66" => posHist[i + 1] = "Position1"
              /\ posHist[i + 1] /= posHist[i]
        /\ i + 2 <= Len(posHist) => posHist[i + 2] /= posHist[i]
        /\ i + 3 <= Len(posHist) => posHist[i + 3] = posHist[i]

\* C10 witness: every position has been a starting position of three edges
C10_Witness ==
    /\ Len(posHist) >= 6
    /\ position = "Position66"

\* C15: the hardware loop never waits for a publish: whenever a publish is
\* outstanding the loop is at a hardware wait, free to take the next GPIO edge.
C15_LoopNeverAwaitsPublish ==
    Len(pubInFlight) = 1 => mainPc \in {"wait_pos1", "wait_loc"}

\* C19: a failed credential mint is returned to the caller as an error value
\* and never aborts the process; a callback invocation whose mint failed
\* returns, having made no connect call.
C19_MintFailureIsAnErrorValue ==
    /\ proc /= "aborted"
    /\ \A i \in 1..Len(obsLog) :
          (obsLog[i].mints = 1 /\ obsLog[i].connects = 0) =>
              obsLog[i].ended = "returned"

\* C20: Robot.async_next_event never returns an error, and the position
\* changes only in a step that takes an edge event from the stream; a call
\* that resumes on the end of the stream returns Ok and leaves the position
\* as it was.
C20_PositionChangesOnlyOnEdge ==
    /\ [](robotRet \in {"none", "pending", "Ok"})
    /\ [][/\ position' /= position =>
                (robotEdges' = robotEdges + 1 /\ robotPending' = robotPending - 1)
          /\ (robotPc = "awaiting" /\ robotPending = 0 /\ robotPc' = "idle") =>
                (robotRet' = "Ok" /\ position' = position)]_vars

\* a call returned Ok on the end of the stream, after an edge had moved the
\* robot
C20_Witness ==
    /\ robotClosed
    /\ robotPc = "idle"
    /\ robotRet = "Ok"
    /\ robotCalls > robotEdges
    /\ robotEdges >= 1

\* the digit sequence ds denotes an integer of at most 2^32 - 1
AtMostU32Max(ds) ==
    LET top == <<4, 2, 9, 4, 9, 6, 7, 2, 9, 5>>
    IN \/ Len(ds) < Len(top)
       \/ /\ Len(ds) = Len(top)
          /\ \/ ds = top
             \/ \E i \in 1..Len(top) :
                   /\ ds[i] < top[i]
                   /\ \A j \in 1..(i - 1) : ds[j] = top[j]

\* C18: decoding {"count": c} succeeds with count = c for every integer c in
\* 0..2^32-1 (the decoded count prints back as the digits of the text), and
\* fails for every negative c.
C18_DecodeAcceptsExactlyU32 ==
    (decodePc = "decoded" /\ ValidNumber(reqDigits)) =>
        /\ (~reqNeg /\ AtMostU32Max(reqDigits)) =>
               (decoded.ok /\ InU32(decoded.count)
                  /\ Render(decoded.count) = reqDigits)
        /\ (reqNeg /\ reqDigits /= <<0>>) => ~decoded.ok

\* the largest count, 4294967295, was decoded
C18_Witness ==
    /\ decodePc = "decoded"
    /\ ~reqNeg
    /\ reqDigits = <<4, 2, 9, 4, 9, 6, 7, 2, 9, 5>>
    /\ decoded.ok
    /\ decoded.count = U32Max

RECURSIVE IsPrefix(_, _)
IsPrefix(s, t) ==
    \/ s = <<>>
    \/ /\ t /= <<>>
       /\ Head(s) = Head(t)
       /\ IsPrefix(Tail(s), Tail(t))

\* C14: events reach the cloud in the order the loop produces them, without
\* reordering or duplication; the produced sequence is Position1, Position15,
\* Position1, ...; and every message stands for an edge observed on its line
\* (pos_1 for Position1, loc_reached for Position15).
C14_PublishedInOrderAfterEdges ==
    /\ IsPrefix(published, produced)
    /\ \A i \in 1..Len(produced) :
          /\ produced[i] = (IF i % 2 = 1 THEN "Position1" ELSE "Position15")
          /\ edgeLog[i]

\* the cycle log from entry i alternates pickup and placement, pick by pick
CycleAlternates ==
    \A i \in 1..Len(cycleLog) :
        LET e == cycleLog[i] IN
        /\ i = 1 => e.ev = "start"
        /\ i > 1 =>
             LET d == cycleLog[i - 1] IN
             /\ e.ev = "pickup" =>
                   \/ d.ev = "start" /\ e.pick = 1
                   \/ d.ev = "placement" /\ e.pick = d.pick + 1
             /\ e.ev = "placement" => (d.ev = "pickup" /\ e.pick = d.pick)
             /\ e.ev = "stop" => d.ev = "placement"
             /\ e.ev /= "start"

\* the program calls went through: neither start nor stop met a hardware error
NoHardwareError == cycleResult /= "Err(Hardware)"

HandledWellFormed(id) ==
    /\ id <= Len(cmdLog)
    /\ WellFormed(cmdLog[id].payload)
    /\ \E i \in 1..Len(handled) : handled[i] = id

\* C16: every well-formed start request received on the config topic
\* eventually drives a production cycle: program.start() is eventually
\* invoked for it.
C16_StartRequestDrivesCycle ==
    \A id \in 1..MaxInbound :
        HandledWellFormed(id) ~> (Len(programCalls) >= 1)

\* the ids of the commands the client was handed, in order
RECURSIVE DeliveredIds(_)
DeliveredIds(n) ==
    IF n = 0 THEN <<>>
    ELSE IF cmdLog[n].delivered THEN Append(DeliveredIds(n - 1), n)
    ELSE DeliveredIds(n - 1)

C22_AddIsTheMathematicalSum ==
    /\ feederPc /= "panicked"
    /\ \A i \in 1..Len(addLog) :
          /\ addLog[i].after = BigAdd(addLog[i].before, addLog[i].n)
          /\ ~BigLt(addLog[i].after, addLog[i].before)

\* C21: the program line is 0 after construction, 1 after every successful
\* start and 0 after every successful stop, whatever it was before; a call
\* that returns a hardware error leaves it as it was; so the line reflects
\* the last successful call.
C21_LineReflectsLastSuccessfulCall ==
    /\ programLog = <<>> => programLine = 0
    /\ \A i \in 1..Len(programLog) :
          LET c == programLog[i] IN
          /\ (c.ok /\ c.op = "start") => c.after = 1
          /\ (c.ok /\ c.op = "stop") => c.after = 0
          /\ ~c.ok => c.after = c.before
          /\ c.before = (IF i = 1 THEN 0 ELSE programLog[i - 1].after)
    /\ programLog /= <<>> => programLine = programLog[Len(programLog)].after

\* start was called twice in a row, stop twice in a row, both succeeding,
\* and a call met a hardware error while the line was 1
C21_Witness ==
    /\ \E i \in 1..(Len(programLog) - 1) :
          /\ programLog[i].op = "start" /\ programLog[i].ok
          /\ programLog[i + 1].op = "start" /\ programLog[i + 1].ok
    /\ \E i \in 1..(Len(programLog) - 1) :
          /\ programLog[i].op = "stop" /\ programLog[i].ok
          /\ programLog[i + 1].op = "stop" /\ programLog[i + 1].ok
    /\ \E i \in 1..Len(programLog) :
          ~programLog[i].ok /\ programLog[i].before = 1
    /\ programLine = 0

====
